---------------------------- MODULE Spec2Model ----------------------------
(***************************************************************************)
(* A model of the Google Maps bulk scraper of src/main.js.  The file holds *)
(* two full-script variants of the actor:                                  *)
(*   "card" (lines 1-449)   extracts places in place from the result cards *)
(*                          while it scrolls, filters gate the output;     *)
(*   "page" (lines 451-938) first collects the place URLs while scrolling, *)
(*                          then visits every URL, filters only label.     *)
(* Both share the query loop, the deduplication set seenPlaces and the     *)
(* scroll loop bounded by MAX_SCROLL_ATTEMPTS and NO_NEW_RESULTS_THRESHOLD.*)
(*                                                                         *)
(* The crawler (crawlee) is an external collaborator.  It is modelled by   *)
(* its contract: one request per crawler, one handler invocation at a time,*)
(* an invocation that throws or exceeds requestHandlerTimeoutSecs counts   *)
(* as failed and performs no further step, a failed request is retried up  *)
(* to maxRequestRetries times, and run() resolves when the request is      *)
(* handled or has failed for good.                                         *)
(*                                                                         *)
(* The feed (the rendered result list) is the environment: it is a prefix  *)
(* of an unbounded listing, described by the number of rendered items and  *)
(* by the presence of the end-of-list marker, and it changes only in       *)
(* answer to a scroll action.  What a rendered item holds is chosen when   *)
(* the item is extracted.                                                  *)
(***************************************************************************)
EXTENDS Integers, Sequences, FiniteSets, TLC

(***************************************************************************)
(* Strings are sequences of characters, so that normalisation is computed  *)
(* and not assumed.  A value that JavaScript holds as null or undefined is *)
(* Absent; a present string s is Str(s).                                   *)
(***************************************************************************)
Absent == [present |-> FALSE, val |-> << >>]

Str(s) == [present |-> TRUE, val |-> s]

\* String.prototype.toLowerCase on one character of the alphabet in use.
LowerChar(c) ==
    CASE c = "A" -> "a"
      [] c = "B" -> "b"
      [] OTHER   -> c

\* The characters \s matches and trim() strips.
IsSpace(c) == c \in {" ", "\t"}

toLowerCase(s) == [i \in 1..Len(s) |-> LowerChar(s[i])]

RECURSIVE trimStart(_)
trimStart(s) ==
    IF s = << >> THEN << >>
    ELSE IF IsSpace(Head(s)) THEN trimStart(Tail(s)) ELSE s

RECURSIVE trimEnd(_)
trimEnd(s) ==
    IF s = << >> THEN << >>
    ELSE IF IsSpace(s[Len(s)]) THEN trimEnd(SubSeq(s, 1, Len(s) - 1)) ELSE s

\* A trim that strips one whitespace character at most from each end.
trimOnce(s) ==
    LET t == IF s # << >> /\ IsSpace(Head(s)) THEN Tail(s) ELSE s
    IN  IF t # << >> /\ IsSpace(t[Len(t)]) THEN SubSeq(t, 1, Len(t) - 1) ELSE t

trim(s) == trimEnd(trimStart(s))

\* replace(/\s+/g, ' '): every maximal run of whitespace becomes one space.
RECURSIVE collapseSpaces(_)
collapseSpaces(s) ==
    IF s = << >> THEN << >>
    ELSE IF IsSpace(Head(s))
         THEN <<" ">> \o collapseSpaces(trimStart(Tail(s)))
         ELSE <<Head(s)>> \o collapseSpaces(Tail(s))

normalize(s) == collapseSpaces(trim(toLowerCase(s)))

\* generatePlaceKey(businessName, address): `${normalize(n)}|${normalize(a)}`
generatePlaceKey(businessName, address) ==
    normalize(businessName) \o <<"|">> \o normalize(address)

\* placeData.address || '' : null and the empty string both give ''.
addressOrEmpty(address) == IF address.present THEN address.val ELSE << >>

\* The key the handlers compute for a candidate record.
placeKey(placeData) ==
    generatePlaceKey(placeData.business_name.val, addressOrEmpty(placeData.address))


(***************************************************************************)
(* Program constants.                                                      *)
(***************************************************************************)
MAX_SCROLL_ATTEMPTS == 100

NO_NEW_RESULTS_THRESHOLD == 5

maxRequestRetries == 3

\* null where the program holds a number (rating, minRating).
NullNumber == -1

(***************************************************************************)
(* Bounds of the model.                                                    *)
(***************************************************************************)
\* The longest query list of an input.
MaxQueries == 2

\* The most items the feed of a query renders in the whole-run specification.
MaxFeed == 2

\* The most new items one scroll action makes the feed render.
MaxGrow == 1

\* The most consecutive scroll actions a feed of the whole-run specification
\* answers with nothing new before it renders again: past that it is
\* exhausted.
MaxLag == 0

(***************************************************************************)
(* Inputs.                                                                 *)
(***************************************************************************)
\* What a searchTerm or location field of the input can hold: missing, the
\* empty string, whitespace only, a proper value.
FieldValues == {Absent, Str(<< >>), Str(<<" ", "\t">>), Str(<<"B", " ", "a">>)}

QueryValues == [searchTerm : FieldValues, location : FieldValues]

RECURSIVE QueryLists(_)
QueryLists(n) ==
    IF n = 0 THEN {<< >>}
    ELSE QueryLists(n - 1)
         \cup {Append(qs, q) : qs \in {l \in QueryLists(n - 1) : Len(l) = n - 1},
                               q \in QueryValues}

\* Actor.getInput(): null, or an object whose queries default to [].
NoInput == [present |-> FALSE, queries |-> << >>]

Inputs == {NoInput} \cup {[present |-> TRUE, queries |-> qs] : qs \in QueryLists(MaxQueries)}

\* The blank test without the trim: whitespace passes for a value.
isBlankNoTrim(field) == ~field.present \/ field.val = << >>

\* !field || field.trim() === ''
isBlank(field) == ~field.present \/ field.val = << >> \/ trim(field.val) = << >>

\* The validation of lines 235-259: the error thrown, or "none".
RECURSIVE queryError(_, _)
queryError(qs, i) ==
    IF i > Len(qs) THEN "none"
    ELSE IF isBlank(qs[i].searchTerm) THEN "Each query must have a searchTerm"
    ELSE IF isBlank(qs[i].location) THEN "Each query must have a location"
    ELSE queryError(qs, i + 1)

validationError(in) ==
    IF ~in.present THEN "Input is required"
    ELSE IF Len(in.queries) = 0 THEN "queries array is required and must not be empty"
    ELSE queryError(in.queries, 1)

(***************************************************************************)
(* What the Extractor can lift out of a rendered item: a candidate with    *)
(* business_name Absent is the result null ("not a record").  website is   *)
(* whether the field is truthy, email what the place page itself shows,    *)
(* siteEmail what a fetch of the website comes back with ("none" also when *)
(* the fetch fails).  Place 2 has the key of place 1 under normalisation   *)
(* and differs in every field the filters read.                            *)
(***************************************************************************)
Candidate(n, a, w, r, c, e, se) ==
    [business_name |-> n, address |-> a, website |-> w, rating |-> r,
     isClosed |-> c, email |-> e, siteEmail |-> se]

Place1 == Candidate(Str(<<"A">>), Absent, TRUE, 4, FALSE, "none", "site")

Place2 == Candidate(Str(<<" ", "a", "\t">>), Str(<<" ">>), FALSE, NullNumber, TRUE,
                    "none", "none")

Place3 == Candidate(Str(<<"B">>), Str(<<"a", "|">>), TRUE, 2, FALSE, "page", "none")

NoPlace == Candidate(Absent, Absent, FALSE, NullNumber, FALSE, "none", "none")

Places == {Place1, Place2, Place3, NoPlace}

\* placeData while no record is between seenPlaces.add and pushData.
NoRecord == NoPlace

\* skipClosedPlaces, requireWebsite, minRating as the input sets them: the
\* defaults (242-244), every filter on, every filter off.
Settings == {<<TRUE, FALSE, NullNumber>>, <<TRUE, TRUE, 3>>, <<FALSE, FALSE, NullNumber>>}

VARIABLES
    \* the build and the input
    variant,                \* "card" or "page": which script of main.js runs
    input,                  \* Actor.getInput()
    skipClosedPlaces, requireWebsite, minRating, shouldExtractEmail,
    world,                  \* the candidates the feeds of this run can hold
    feedCap,                \* the most items a feed of this run renders
    lagCap,                 \* the most barren scrolls before a feed renders again
    shrinkCap,              \* the most items a scroll action makes a feed drop
    \* the run
    pc,                     \* where the script is
    queryIndex,             \* the query loop's index, 0-based
    retryCount,             \* the crawler's count of retries of the request
    seenPlaces,             \* the Dedup Index
    totalExtracted,
    sink,                   \* the records Dataset.pushData received, in order
    \* the locals of the running handler invocation
    placesExtractedThisQuery, scrollAttempts,
    noNewResultsCount,      \* noNewUrlsCount in the page variant
    previousCardCount,      \* previousUrlCount in the page variant
    cardsLength,            \* cards.length of the current iteration
    newCardsLength,         \* newCards.length of the current iteration
    itemIndex,              \* the position in newCards, or i of the visit loop
    newPlacesThisScroll,
    allPlaceUrls,           \* allPlaceUrls.length
    placeData,              \* the record between seenPlaces.add and pushData
    \* the feed of the page the invocation drives
    rendered,               \* the number of rendered items
    endMarker,              \* the end-of-list text is on the page
    \* history, read by the properties only
    qstate,                 \* per query: "pending", "running", "finished"
    exitReason,             \* why the scroll loop of this invocation stopped
    barren,                 \* consecutive latest scrolls that rendered nothing new
    alwaysGrew,             \* no end-of-list text so far, and every scroll so
                            \* far rendered something new
    surfaced,               \* <<position of the query, key, what the filters
                            \* say>> of the named candidates the Extractor returned
    outcome                 \* how the request of the query ended, once run()
                            \* has resolved: "nofeed", "failed", "handled"

config == <<variant, input, skipClosedPlaces, requireWebsite, minRating,
            shouldExtractEmail, world, feedCap, lagCap, shrinkCap>>

shared == <<seenPlaces, totalExtracted, sink>>

locals == <<placesExtractedThisQuery, scrollAttempts, noNewResultsCount,
            previousCardCount, cardsLength, newCardsLength, itemIndex,
            newPlacesThisScroll, allPlaceUrls, placeData>>

feed == <<rendered, endMarker>>

loopHistory == <<exitReason, barren, alwaysGrew>>

history == <<qstate, loopHistory, surfaced, outcome>>

vars == <<config, pc, queryIndex, retryCount, shared, locals, feed, history>>

queries == input.queries

Min(a, b) == IF a < b THEN a ELSE b

Max(a, b) == IF a > b THEN a ELSE b

(***************************************************************************)
(* The filters and the record written to the Sink.                         *)
(***************************************************************************)
\* The filters without the closed test.
filterStatusIgnoringClosed(p) ==
    IF requireWebsite /\ ~p.website THEN "no_website"
    ELSE IF minRating # NullNumber /\ (p.rating = NullNumber \/ p.rating < minRating)
         THEN "low_rating"
    ELSE "extracted"

\* The filters with the website test first.
filterStatusWebsiteFirst(p) ==
    IF requireWebsite /\ ~p.website THEN "no_website"
    ELSE IF skipClosedPlaces /\ p.isClosed THEN "closed"
    ELSE IF minRating # NullNumber /\ (p.rating = NullNumber \/ p.rating < minRating)
         THEN "low_rating"
    ELSE "extracted"

\* The three predicates, in the order both variants test them: the label of
\* the first that matches, "extracted" when none does.
filterStatus(p) ==
    IF skipClosedPlaces /\ p.isClosed THEN "closed"
    ELSE IF requireWebsite /\ ~p.website THEN "no_website"
    ELSE IF minRating # NullNumber /\ (p.rating = NullNumber \/ p.rating < minRating)
         THEN "low_rating"
    ELSE "extracted"

\* A card variant whose filters let every candidate through.
cardSkipsNothing(p) == FALSE

\* The card variant skips (continue) a candidate a filter matches.
cardSkips(p) == filterStatus(p) # "extracted"

\* The loop index written as it is, 0-based.
zeroBasedIndex == queryIndex

\* placeData.query_index = queryIndex + 1
stampedIndex == queryIndex + 1

\* An Enricher that is called whether or not the record has a website.
enricherInvokedAlways(p) == variant = "card" \/ (shouldExtractEmail /\ p.email = "none")

\* Whether extractEmailFromWebsite is called for a record: when the record
\* has a website (359) and, in the page variant, when it is enabled and the
\* page showed no email (863).
enricherInvoked(p) ==
    p.website /\ (variant = "card" \/ (shouldExtractEmail /\ p.email = "none"))

\* The email of the pushed record: what the fetch of the website comes back
\* with when it is made, what the extraction found otherwise.
enrichedEmail(p) == IF enricherInvoked(p) THEN p.siteEmail ELSE p.email

\* What pushData receives.  isClosed is deleted from the pushed object; the
\* model keeps it to state the properties about closed places, and notes in
\* fetched whether the Enricher was called for the record.  The card
\* variant writes no filter_status ("absent").
pushedRecord(p, email, status) ==
    [business_name |-> p.business_name.val,
     address       |-> p.address,
     website       |-> p.website,
     rating        |-> p.rating,
     email         |-> email,
     filter_status |-> status,
     query_index   |-> stampedIndex,
     isClosed      |-> p.isClosed,
     fetched       |-> enricherInvoked(p)]

\* The key of a record of the Sink, as the specification defines DedupKey.
DedupKey(r) == generatePlaceKey(r.business_name, addressOrEmpty(r.address))

(***************************************************************************)
(* Init: the state after Actor.init(), before the input is read.           *)
(***************************************************************************)
NoLocals ==
    /\ placesExtractedThisQuery = 0
    /\ scrollAttempts = 0
    /\ noNewResultsCount = 0
    /\ previousCardCount = 0
    /\ cardsLength = 0
    /\ newCardsLength = 0
    /\ itemIndex = 0
    /\ newPlacesThisScroll = 0
    /\ allPlaceUrls = 0
    /\ placeData = NoRecord

NoRun ==
    /\ pc = "validate"
    /\ queryIndex = 0
    /\ retryCount = 0
    /\ seenPlaces = {}
    /\ totalExtracted = 0
    /\ sink = << >>
    /\ NoLocals
    /\ rendered = 0
    /\ endMarker = FALSE
    /\ qstate = [k \in 1..Len(queries) |-> "pending"]
    /\ exitReason = "none"
    /\ barren = 0
    /\ alwaysGrew = TRUE
    /\ surfaced = {}
    /\ outcome = "none"

Init ==
    /\ variant \in {"card", "page"}
    /\ input \in Inputs
    /\ \E s \in Settings :
         /\ skipClosedPlaces = s[1]
         /\ requireWebsite = s[2]
         /\ minRating = s[3]
    \* the card variant has no such switch: it always enriches
    /\ shouldExtractEmail \in (IF variant = "card" THEN {TRUE} ELSE BOOLEAN)
    /\ world = Places
    /\ feedCap = MaxFeed
    /\ lagCap = MaxLag
    /\ shrinkCap = 0
    /\ NoRun

(***************************************************************************)
(* The script outside the handler.                                         *)
(***************************************************************************)
\* Lines 233-272 (726-766): read and validate the input, create seenPlaces.
Validate ==
    /\ pc = "validate"
    /\ pc' = IF validationError(input) = "none" THEN "query" ELSE "failed"
    /\ UNCHANGED <<config, queryIndex, retryCount, shared, locals, feed, history>>

\* Lines 274-283, 423-431 (768-777, 918-921): the next query's crawler is
\* created and run with the query's single request.
StartQuery ==
    /\ pc = "query"
    /\ queryIndex < Len(queries)
    /\ pc' = "request"
    /\ retryCount' = 0
    /\ qstate' = [qstate EXCEPT ![queryIndex + 1] = "running"]
    /\ UNCHANGED <<config, queryIndex, shared, locals, feed, loopHistory, surfaced,
                   outcome>>

\* Lines 436-449 (926-938): the loop is over, the summary is printed.
Finish ==
    /\ pc = "query"
    /\ queryIndex = Len(queries)
    /\ pc' = "done"
    /\ UNCHANGED <<config, queryIndex, retryCount, shared, locals, feed, history>>

\* A loop that does not await crawler.run().
runNotAwaited == TRUE

\* crawler.run() has resolved: the request was handled or has failed for good.
runResolved == pc = "resolved"

\* Lines 431-434 (921-924): await crawler.run(...) returns, the loop steps on.
NextQuery ==
    /\ runResolved
    /\ pc \notin {"validate", "failed", "query", "done"}
    /\ pc' = "query"
    /\ qstate' = [qstate EXCEPT ![queryIndex + 1] =
                     IF pc = "resolved" THEN "finished" ELSE @]
    /\ queryIndex' = queryIndex + 1
    /\ outcome' = "none"
    /\ UNCHANGED <<config, retryCount, shared, locals, feed, loopHistory, surfaced>>

(***************************************************************************)
(* The request handler.                                                    *)
(***************************************************************************)
\* Locals that outlive the invocation.
KeepLocals == UNCHANGED locals

\* Lines 302-305 (798-801, 830): the locals of a handler invocation.
DeclareLocals ==
    /\ placesExtractedThisQuery' = 0
    /\ scrollAttempts' = 0
    /\ noNewResultsCount' = 0
    /\ previousCardCount' = 0
    /\ cardsLength' = 0
    /\ newCardsLength' = 0
    /\ itemIndex' = 0
    /\ newPlacesThisScroll' = 0
    /\ allPlaceUrls' = 0
    /\ placeData' = NoRecord

\* The invocation is over: its locals and its page are gone.
ReleaseInvocation ==
    /\ DeclareLocals
    /\ rendered' = 0
    /\ endMarker' = FALSE
    /\ exitReason' = "none"
    /\ barren' = 0
    /\ alwaysGrew' = TRUE

\* scrollResultsPanel (62-86, 531-555): the feed after a scroll action and
\* its settle delay.  The feed may drop up to shrinkCap of the items it
\* rendered, may render up to MaxGrow more items unless it is exhausted, and
\* may show the end-of-list text, which stays.
ScrollOutcomes ==
    {<<n, e>> : n \in Max(0, rendered - shrinkCap)..(IF barren <= lagCap
                                 THEN Min(rendered + MaxGrow, feedCap)
                                 ELSE rendered),
                e \in (IF endMarker THEN {TRUE} ELSE BOOLEAN)}

\* The history of one scroll action whose outcome is o.
ScrollHistory(o, enumerated) ==
    /\ barren' = IF o[1] <= rendered THEN barren + 1 ELSE 0
    /\ alwaysGrew' = (alwaysGrew /\ enumerated /\ o[1] > rendered /\ ~o[2])

\* Lines 293-307 (787-801): the crawler has navigated and invokes the
\* handler, waitForResults (194-203, 708-717) finds the feed, the locals are
\* declared.
HandlerStart ==
    /\ pc = "request"
    /\ pc' = "loop"
    /\ \E n \in 0..Min(MaxFeed, feedCap), e \in BOOLEAN :
          rendered' = n /\ endMarker' = e /\ alwaysGrew' = ~e
    /\ DeclareLocals
    /\ exitReason' = "none"
    /\ barren' = 0
    /\ UNCHANGED <<config, queryIndex, retryCount, shared, qstate, surfaced, outcome>>

\* A handler that throws when the feed does not appear, so that the request
\* counts as failed and is retried.
FeedLoadThrows ==
    /\ pc = "request"
    /\ IF retryCount < maxRequestRetries
       THEN /\ retryCount' = retryCount + 1
            /\ pc' = "request"
            /\ UNCHANGED outcome
       ELSE /\ pc' = "resolved"
            /\ outcome' = "failed"
            /\ UNCHANGED retryCount
    /\ UNCHANGED <<config, queryIndex, shared, locals, feed, qstate, loopHistory,
                   surfaced>>

\* Lines 296-300 (790-794): waitForResults gives up after its bounded wait
\* and the handler returns at once: the request counts as handled.
FeedLoadFail ==
    /\ pc = "request"
    /\ pc' = "resolved"
    /\ outcome' = "nofeed"
    /\ UNCHANGED <<config, queryIndex, retryCount, shared, locals, feed,
                   qstate, loopHistory, surfaced>>

\* A membership test that never finds the key.
neverSeen(key) == FALSE

\* seenPlaces.has(placeKey)
isDuplicate(key) == key \in seenPlaces

\* The loop condition off by one: <= for <.
mayScrollOneMore == scrollAttempts <= MAX_SCROLL_ATTEMPTS

\* The while condition of the scroll loop (309, 804).
mayScroll == scrollAttempts < MAX_SCROLL_ATTEMPTS

\* The stall test off by one: > for >=.
stalledLate(count) == count > NO_NEW_RESULTS_THRESHOLD

\* The stall test after an iteration's stall accounting (394, 810).
stalled(count) == count >= NO_NEW_RESULTS_THRESHOLD

----------------------------------------------------------------------------
(* The card variant, lines 309-416. *)

\* Lines 309-320: the loop condition, the end-of-list check, and the
\* enumeration of the cards with the slice of the new ones.
CardLoopHead ==
    /\ variant = "card"
    /\ pc = "loop"
    /\ IF ~mayScroll \/ endMarker
       THEN /\ pc' = "summary"
            /\ exitReason' = IF ~mayScroll THEN "cap" ELSE "end"
            /\ UNCHANGED <<cardsLength, newCardsLength, itemIndex, newPlacesThisScroll>>
       ELSE /\ pc' = "cards"
            /\ cardsLength' = rendered
            /\ newCardsLength' = Max(0, rendered - previousCardCount)
            /\ itemIndex' = 0
            /\ newPlacesThisScroll' = 0
            /\ UNCHANGED exitReason
    /\ UNCHANGED <<config, queryIndex, retryCount, shared, feed,
                   placesExtractedThisQuery, scrollAttempts, noNewResultsCount,
                   previousCardCount, allPlaceUrls, placeData,
                   qstate, barren, alwaysGrew, surfaced, outcome>>

\* Lines 322-356: the next new card is extracted (extractPlaceDetails, 91-189,
\* which sets email to null), filtered, and checked against seenPlaces; a
\* card that passes has its key added.
CardExtract ==
    /\ variant = "card"
    /\ pc = "cards"
    /\ itemIndex < newCardsLength
    /\ \E p \in world :
         IF ~p.business_name.present
         THEN /\ itemIndex' = itemIndex + 1
              /\ UNCHANGED <<pc, seenPlaces, placeData, surfaced>>
         ELSE /\ surfaced' = surfaced \cup {<<queryIndex + 1, placeKey(p), filterStatus(p)>>}
              /\ IF cardSkips(p) \/ isDuplicate(placeKey(p))
                 THEN /\ itemIndex' = itemIndex + 1
                      /\ UNCHANGED <<pc, seenPlaces, placeData>>
                 ELSE /\ seenPlaces' = seenPlaces \cup {placeKey(p)}
                      /\ placeData' = [p EXCEPT !.email = "none"]
                      /\ pc' = "emit"
                      /\ UNCHANGED itemIndex
    /\ UNCHANGED <<config, queryIndex, retryCount, totalExtracted, sink, feed,
                   placesExtractedThisQuery, scrollAttempts, noNewResultsCount,
                   previousCardCount, cardsLength, newCardsLength,
                   newPlacesThisScroll, allPlaceUrls, qstate, loopHistory, outcome>>

\* An emission after which the pass over the new cards starts again.
CardEmitRestarts ==
    /\ variant = "card"
    /\ pc = "emit"
    /\ sink' = Append(sink, pushedRecord(placeData, enrichedEmail(placeData), "absent"))
    /\ placesExtractedThisQuery' = placesExtractedThisQuery + 1
    /\ totalExtracted' = totalExtracted + 1
    /\ newPlacesThisScroll' = newPlacesThisScroll + 1
    /\ itemIndex' = 0
    /\ placeData' = NoRecord
    /\ pc' = "cards"
    /\ UNCHANGED <<config, queryIndex, retryCount, seenPlaces, feed,
                   scrollAttempts, noNewResultsCount, previousCardCount,
                   cardsLength, newCardsLength, allPlaceUrls, history>>

\* Lines 358-385: the email is fetched when the record has a website
\* (extractEmailFromWebsite, 34-57), the record is stamped and pushed, the
\* counters are incremented.
CardEmit ==
    /\ variant = "card"
    /\ pc = "emit"
    /\ sink' = Append(sink, pushedRecord(placeData, enrichedEmail(placeData), "absent"))
    /\ placesExtractedThisQuery' = placesExtractedThisQuery + 1
    /\ totalExtracted' = totalExtracted + 1
    /\ newPlacesThisScroll' = newPlacesThisScroll + 1
    /\ itemIndex' = itemIndex + 1
    /\ placeData' = NoRecord
    /\ pc' = "cards"
    /\ UNCHANGED <<config, queryIndex, retryCount, seenPlaces, feed,
                   scrollAttempts, noNewResultsCount, previousCardCount,
                   cardsLength, newCardsLength, allPlaceUrls, history>>

\* Lines 388-409: the cursor moves to cards.length, the stall is accounted
\* for, and unless the loop breaks the panel is scrolled and the attempt
\* counted.
CardEndIteration ==
    /\ variant = "card"
    /\ pc = "cards"
    /\ itemIndex = newCardsLength
    /\ previousCardCount' = cardsLength
    /\ LET count == IF newPlacesThisScroll = 0 /\ newCardsLength = 0
                    THEN noNewResultsCount + 1 ELSE 0
       IN /\ noNewResultsCount' = count
          /\ IF newPlacesThisScroll = 0 /\ newCardsLength = 0 /\ stalled(count)
             THEN /\ pc' = "summary"
                  /\ exitReason' = "stall"
                  /\ UNCHANGED <<scrollAttempts, feed, barren, alwaysGrew>>
             ELSE /\ pc' = "loop"
                  /\ \E o \in ScrollOutcomes :
                        /\ rendered' = o[1]
                        /\ endMarker' = o[2]
                        /\ ScrollHistory(o, TRUE)
                  /\ scrollAttempts' = scrollAttempts + 1
                  /\ UNCHANGED exitReason
    /\ UNCHANGED <<config, queryIndex, retryCount, shared,
                   placesExtractedThisQuery, cardsLength, newCardsLength,
                   itemIndex, newPlacesThisScroll, allPlaceUrls, placeData,
                   qstate, surfaced, outcome>>

----------------------------------------------------------------------------
(* The place-page variant, lines 804-911. *)

\* Lines 804-827: the loop condition and one iteration of the URL collection
\* loop.  extractPlaceUrls (560-572) returns the rendered place URLs
\* (urlsFound), or [] when it fails; the URLs are merged into allPlaceUrls,
\* the stall is accounted for, and unless the loop breaks the panel is
\* scrolled and the attempt counted.  When the loop stops, by its condition
\* or by the break, the visit loop is next.
PageCollect(urlsFound) ==
    /\ variant = "page"
    /\ pc = "loop"
    /\ IF ~mayScroll
       THEN /\ pc' = "visit"
            /\ exitReason' = "cap"
            /\ UNCHANGED <<allPlaceUrls, noNewResultsCount, previousCardCount,
                           scrollAttempts, feed, barren, alwaysGrew>>
       ELSE LET currentUrls == IF urlsFound THEN rendered ELSE 0
                merged == Max(allPlaceUrls, currentUrls)
                count == IF merged = previousCardCount
                         THEN noNewResultsCount + 1 ELSE 0
            IN /\ allPlaceUrls' = merged
               /\ noNewResultsCount' = count
               /\ previousCardCount' = merged
               /\ IF merged = previousCardCount /\ stalled(count)
                  THEN /\ pc' = "visit"
                       /\ exitReason' = "stall"
                       /\ UNCHANGED <<scrollAttempts, feed, barren, alwaysGrew>>
                  ELSE /\ pc' = "loop"
                       /\ \E o \in ScrollOutcomes :
                             /\ rendered' = o[1]
                             /\ endMarker' = o[2]
                             /\ ScrollHistory(o, urlsFound)
                       /\ scrollAttempts' = scrollAttempts + 1
                       /\ UNCHANGED exitReason
    /\ UNCHANGED <<config, queryIndex, retryCount, shared,
                   placesExtractedThisQuery, cardsLength, newCardsLength,
                   itemIndex, newPlacesThisScroll, placeData, qstate, surfaced,
                   outcome>>

PageCollectUrls == PageCollect(TRUE)

PageCollectNothing == PageCollect(FALSE)

\* A visit loop that starts while the URL collection loop is still running.
PageVisitEarly ==
    /\ variant = "page"
    /\ pc \in {"loop", "visit"}
    /\ itemIndex < allPlaceUrls
    /\ \E p \in world :
         IF ~p.business_name.present
         THEN /\ itemIndex' = itemIndex + 1
              /\ UNCHANGED <<pc, seenPlaces, placeData, surfaced>>
         ELSE /\ surfaced' = surfaced \cup {<<queryIndex + 1, placeKey(p), filterStatus(p)>>}
              /\ IF isDuplicate(placeKey(p))
                 THEN /\ itemIndex' = itemIndex + 1
                      /\ UNCHANGED <<pc, seenPlaces, placeData>>
                 ELSE /\ seenPlaces' = seenPlaces \cup {placeKey(p)}
                      /\ placeData' = p
                      /\ pc' = "vemit"
                      /\ UNCHANGED itemIndex
    /\ UNCHANGED <<config, queryIndex, retryCount, totalExtracted, sink, feed,
                   placesExtractedThisQuery, scrollAttempts, noNewResultsCount,
                   previousCardCount, cardsLength, newCardsLength,
                   newPlacesThisScroll, allPlaceUrls, qstate, loopHistory, outcome>>

\* Lines 832-860: the next collected URL is visited and its details are
\* extracted (extractPlaceDetailsFromPage, 577-703).  An item without a name
\* or with a key seenPlaces holds is skipped; otherwise the key is added.
PageVisit ==
    /\ variant = "page"
    /\ pc = "visit"
    /\ itemIndex < allPlaceUrls
    /\ \E p \in world :
         IF ~p.business_name.present
         THEN /\ itemIndex' = itemIndex + 1
              /\ UNCHANGED <<pc, seenPlaces, placeData, surfaced>>
         ELSE /\ surfaced' = surfaced \cup {<<queryIndex + 1, placeKey(p), filterStatus(p)>>}
              /\ IF isDuplicate(placeKey(p))
                 THEN /\ itemIndex' = itemIndex + 1
                      /\ UNCHANGED <<pc, seenPlaces, placeData>>
                 ELSE /\ seenPlaces' = seenPlaces \cup {placeKey(p)}
                      /\ placeData' = p
                      /\ pc' = "vemit"
                      /\ UNCHANGED itemIndex
    /\ UNCHANGED <<config, queryIndex, retryCount, totalExtracted, sink, feed,
                   placesExtractedThisQuery, scrollAttempts, noNewResultsCount,
                   previousCardCount, cardsLength, newCardsLength,
                   newPlacesThisScroll, allPlaceUrls, qstate, loopHistory, outcome>>

\* Lines 862-897: the email is fetched when enabled, a website is known and
\* the page showed none (extractEmailFromWebsite, 484-526); the record is
\* labelled, stamped and pushed and the counters are incremented.
PageEmit ==
    /\ variant = "page"
    /\ pc = "vemit"
    /\ sink' = Append(sink, pushedRecord(placeData, enrichedEmail(placeData),
                                         filterStatus(placeData)))
    /\ placesExtractedThisQuery' = placesExtractedThisQuery + 1
    /\ totalExtracted' = totalExtracted + 1
    /\ itemIndex' = itemIndex + 1
    /\ placeData' = NoRecord
    /\ pc' = "visit"
    /\ UNCHANGED <<config, queryIndex, retryCount, seenPlaces, feed,
                   scrollAttempts, noNewResultsCount, previousCardCount,
                   cardsLength, newCardsLength, newPlacesThisScroll, allPlaceUrls,
                   history>>

\* Lines 835-845, 899-902: an error while the item is processed (the
\* navigation to the place, pushData) is caught by the item's try/catch and
\* the loop goes on with the next URL.  A key already added stays added.
PageItemFail ==
    /\ variant = "page"
    /\ \/ pc = "visit" /\ itemIndex < allPlaceUrls
       \/ pc = "vemit"
    /\ itemIndex' = itemIndex + 1
    /\ placeData' = NoRecord
    /\ pc' = "visit"
    /\ UNCHANGED <<config, queryIndex, retryCount, shared, feed,
                   placesExtractedThisQuery, scrollAttempts, noNewResultsCount,
                   previousCardCount, cardsLength, newCardsLength,
                   newPlacesThisScroll, allPlaceUrls, history>>

----------------------------------------------------------------------------
(* The end of a handler invocation. *)

\* The handler has run to its end (411-416, 905-911).
handlerAtEnd ==
    \/ variant = "card" /\ pc = "summary"
    \/ variant = "page" /\ pc = "visit" /\ itemIndex = allPlaceUrls

\* The handler returns: the request is handled and crawler.run() resolves.
HandlerReturn ==
    /\ handlerAtEnd
    /\ pc' = "resolved"
    /\ outcome' = "handled"
    /\ ReleaseInvocation
    /\ UNCHANGED <<config, queryIndex, retryCount, shared, qstate, surfaced>>

\* Where a handler invocation (or the navigation before it) can be.
HandlerPcs == {"request", "loop", "cards", "emit", "summary", "visit", "vemit"}

\* A crawler whose failed request makes run() reject: the script's catch
\* rethrows and the run fails.
HandlerFailAborts ==
    /\ pc \in HandlerPcs
    /\ IF retryCount < maxRequestRetries
       THEN /\ retryCount' = retryCount + 1
            /\ pc' = "request"
            /\ UNCHANGED outcome
       ELSE /\ pc' = "failed"
            /\ outcome' = "failed"
            /\ UNCHANGED retryCount
    /\ ReleaseInvocation
    /\ UNCHANGED <<config, queryIndex, shared, qstate, surfaced>>

\* A crawler that does not retry: the first failure of an invocation ends
\* the query.
HandlerFailNoRetry ==
    /\ pc \in HandlerPcs
    /\ pc' = "resolved"
    /\ outcome' = "failed"
    /\ UNCHANGED retryCount
    /\ ReleaseInvocation
    /\ UNCHANGED <<config, queryIndex, shared, qstate, surfaced>>

\* Lines 290-291, 418-420 (784-785, 913-915): the invocation throws (an
\* uncaught error of a page operation or of pushData, a navigation error) or
\* exceeds requestHandlerTimeoutSecs.  The crawler retries the request while
\* retryCount < maxRequestRetries, with a new page and a new invocation;
\* after the last retry it calls failedRequestHandler and run() resolves.
HandlerFail ==
    /\ pc \in HandlerPcs
    /\ IF retryCount < maxRequestRetries
       THEN /\ retryCount' = retryCount + 1
            /\ pc' = "request"
            /\ UNCHANGED outcome
       ELSE /\ pc' = "resolved"
            /\ outcome' = "failed"
            /\ UNCHANGED retryCount
    /\ ReleaseInvocation
    /\ UNCHANGED <<config, queryIndex, shared, qstate, surfaced>>

\* Lines 358-379: the card variant has no try/catch around an item: an
\* error of context().newPage(), of emailPage.close() or of pushData leaves
\* the handler, and the invocation fails as a whole.
CardItemFail ==
    /\ variant = "card"
    /\ pc = "emit"
    /\ HandlerFail

\* The steps of a run in which nothing fails.
NextNoFail ==
    \/ Validate
    \/ StartQuery
    \/ Finish
    \/ NextQuery
    \/ HandlerStart
    \/ CardLoopHead
    \/ CardExtract
    \/ CardEmit
    \/ CardEndIteration
    \/ PageCollectUrls
    \/ PageVisit
    \/ PageEmit
    \/ HandlerReturn

Next ==
    \/ NextNoFail
    \/ FeedLoadFail
    \/ PageCollectNothing
    \/ PageItemFail
    \/ CardItemFail
    \/ HandlerFail

\* The whole run: any input, both variants, failures and retries, feeds of
\* at most MaxFeed items.
Spec == Init /\ [][Next]_vars

\* The runs in which no step fails.
SpecNoFail == Init /\ [][NextNoFail]_vars

(***************************************************************************)
(* The scroll loop of one handler invocation over a feed long enough to    *)
(* reach MAX_SCROLL_ATTEMPTS: one valid query, the default settings, a     *)
(* feed whose items all hold the same place, and no failing step.  The     *)
(* page variant is followed up to the end of its URL collection loop.      *)
(***************************************************************************)
InitScroll ==
    /\ variant \in {"card", "page"}
    /\ input = [present |-> TRUE,
                queries |-> <<[searchTerm |-> Str(<<"B", " ", "a">>),
                               location   |-> Str(<<"B", " ", "a">>)]>>]
    /\ skipClosedPlaces = TRUE
    /\ requireWebsite = FALSE
    /\ minRating = NullNumber
    /\ shouldExtractEmail = TRUE
    /\ world = {Place1}
    /\ feedCap = MAX_SCROLL_ATTEMPTS + MaxFeed
    /\ lagCap = NO_NEW_RESULTS_THRESHOLD
    /\ shrinkCap = 0
    /\ NoRun

NextScroll ==
    \/ Validate
    \/ StartQuery
    \/ HandlerStart
    \/ CardLoopHead
    \/ CardExtract
    \/ CardEmit
    \/ CardEndIteration
    \/ PageCollectUrls

SpecScroll == InitScroll /\ [][NextScroll]_vars

(***************************************************************************)
(* One handler invocation over a feed that may also drop items it rendered *)
(* and whose place links may fail to be read.                              *)
(***************************************************************************)
\* The most items one scroll action makes the feed drop.
MaxShrink == 1

InitShrink ==
    /\ variant \in {"card", "page"}
    /\ input = [present |-> TRUE,
                queries |-> <<[searchTerm |-> Str(<<"B", " ", "a">>),
                               location   |-> Str(<<"B", " ", "a">>)]>>]
    /\ skipClosedPlaces = FALSE
    /\ requireWebsite = FALSE
    /\ minRating = NullNumber
    /\ shouldExtractEmail = TRUE
    /\ world = {Place1}
    /\ feedCap = MaxFeed
    /\ lagCap = NO_NEW_RESULTS_THRESHOLD
    /\ shrinkCap = MaxShrink
    /\ NoRun

NextShrink ==
    \/ Validate
    \/ StartQuery
    \/ HandlerStart
    \/ CardLoopHead
    \/ CardExtract
    \/ CardEmit
    \/ CardEndIteration
    \/ PageCollectUrls
    \/ PageCollectNothing

SpecShrink == InitShrink /\ [][NextShrink]_vars

\* The invocation keeps running: every await of the handler settles.
SpecShrinkFair == SpecShrink /\ WF_vars(NextShrink)

(***************************************************************************)
(* extractEmailFromWebsite as a function of what the website answers: how  *)
(* the request ends and, in page order, the substrings of the content that *)
(* EMAIL_REGEX matches.  placeData carries both until the record is        *)
(* emitted.                                                                *)
(***************************************************************************)
\* The most matches of EMAIL_REGEX in the content of a website.
MaxMatches == 2

\* Two addresses, the name of an image file and a placeholder address.
SiteEmails == {"info@shop.com", "sales@shop.com", "logo@2x.png", "user@example.com"}

\* String.prototype.includes on the addresses and fragments in use.
includes(email, part) ==
    <<email, part>> \in {<<"logo@2x.png", ".png">>, <<"user@example.com", "example.com">>}

\* The filter of lines 504-512.
isDenylisted(email) ==
    \E part \in {".png", ".jpg", ".jpeg", ".gif", "example.com", "sentry.io"} :
        includes(email, part)

\* How the request for the website ends: a success status, another status,
\* no answer within 15 s, a network error.
Responses == {"ok", "status", "timeout", "network"}

RECURSIVE MatchLists(_)
MatchLists(n) ==
    IF n = 0 THEN {<< >>}
    ELSE LET shorter == MatchLists(n - 1)
         IN  shorter \cup {Append(m, e) : m \in {t \in shorter : Len(t) = n - 1},
                                          e \in SiteEmails}

\* [...new Set(emails)]: the first occurrence of every match, in order.
RECURSIVE uniqueInOrder(_)
uniqueInOrder(emails) ==
    IF emails = << >> THEN << >>
    ELSE LET front == uniqueInOrder(SubSeq(emails, 1, Len(emails) - 1))
             last == emails[Len(emails)]
         IN  IF \E i \in 1..Len(front) : front[i] = last THEN front
             ELSE Append(front, last)

keepsAllowed(email) == ~isDenylisted(email)

\* Lines 34-57: page.goto rejects on a timeout or a network error and
\* resolves on any status; the first match of the content is returned.
extractEmailWithPage(response, matches) ==
    IF response \in {"timeout", "network"} THEN "none"
    ELSE IF matches = << >> THEN "none"
    ELSE matches[1]

\* Lines 484-526: fetch rejects on a timeout or a network error, a status
\* that is not a success returns null, and the first match that passes the
\* filter is returned.
extractEmailWithFetch(response, matches) ==
    IF response # "ok" THEN "none"
    ELSE LET validEmails == SelectSeq(uniqueInOrder(matches), keepsAllowed)
         IN  IF validEmails = << >> THEN "none" ELSE validEmails[1]

extractEmailFromWebsite(response, matches) ==
    IF variant = "card"
    THEN extractEmailWithPage(response, matches)
    ELSE extractEmailWithFetch(response, matches)

InitEnrich ==
    /\ variant \in {"card", "page"}
    /\ input = [present |-> TRUE,
                queries |-> <<[searchTerm |-> Str(<<"B", " ", "a">>),
                               location   |-> Str(<<"B", " ", "a">>)]>>]
    /\ skipClosedPlaces = FALSE
    /\ requireWebsite = FALSE
    /\ minRating = NullNumber
    /\ shouldExtractEmail = TRUE
    /\ world = {Place1}
    /\ feedCap = 1
    /\ lagCap = 0
    /\ shrinkCap = 0
    /\ pc = "enrich"
    /\ queryIndex = 0
    /\ retryCount = 0
    /\ seenPlaces = {placeKey(Place1)}
    /\ totalExtracted = 0
    /\ sink = << >>
    /\ placesExtractedThisQuery = 0
    /\ scrollAttempts = 0
    /\ noNewResultsCount = 0
    /\ previousCardCount = 0
    /\ cardsLength = (IF variant = "card" THEN 1 ELSE 0)
    /\ newCardsLength = (IF variant = "card" THEN 1 ELSE 0)
    /\ itemIndex = 0
    /\ newPlacesThisScroll = 0
    /\ allPlaceUrls = (IF variant = "page" THEN 1 ELSE 0)
    /\ \E r \in Responses, m \in MatchLists(MaxMatches) :
         placeData = [business_name |-> Place1.business_name,
                      address       |-> Place1.address,
                      website       |-> TRUE,
                      rating        |-> Place1.rating,
                      isClosed      |-> FALSE,
                      email         |-> "none",
                      siteEmail     |-> "none",
                      response      |-> r,
                      matches       |-> m]
    /\ rendered = 1
    /\ endMarker = FALSE
    /\ qstate = <<"running">>
    /\ exitReason = (IF variant = "page" THEN "stall" ELSE "none")
    /\ barren = 0
    /\ alwaysGrew = TRUE
    /\ surfaced = {<<1, placeKey(Place1), "extracted">>}
    /\ outcome = "none"

\* Lines 360-364 (864): the handler awaits extractEmailFromWebsite; what it
\* returns is the email of the record.
Enrich ==
    /\ pc = "enrich"
    /\ pc' = (IF variant = "card" THEN "emit" ELSE "vemit")
    /\ placeData' = [placeData EXCEPT
                        !.siteEmail = extractEmailFromWebsite(placeData.response,
                                                              placeData.matches)]
    /\ UNCHANGED <<config, queryIndex, retryCount, shared, feed, history>>
    /\ UNCHANGED <<placesExtractedThisQuery, scrollAttempts, noNewResultsCount,
                   previousCardCount, cardsLength, newCardsLength, itemIndex,
                   newPlacesThisScroll, allPlaceUrls>>

NextEnrich ==
    \/ Enrich
    \/ CardEmit
    \/ PageEmit

SpecEnrich == InitEnrich /\ [][NextEnrich]_vars

(***************************************************************************)
(* generatePlaceKey as a function of its arguments: the keys of two        *)
(* candidates, every pair of names and addresses of MaxKeyLen characters   *)
(* at most over KeyChars.  placeData holds the first candidate, world the  *)
(* second, seenPlaces receives their keys.                                 *)
(***************************************************************************)
\* The longest name and the longest address of a candidate.
MaxKeyLen == 2

\* An upper-case letter, a lower-case letter, a space and the separator.
KeyChars == {"A", "a", " ", "|"}

RECURSIVE KeyStrings(_)
KeyStrings(n) ==
    IF n = 0 THEN {<< >>}
    ELSE LET shorter == KeyStrings(n - 1)
         IN  shorter \cup {Append(s, c) : s \in {t \in shorter : Len(t) = n - 1},
                                          c \in KeyChars}

\* A candidate has a name that is not empty; its address may be null.
KeyPlaces ==
    {Candidate(Str(n), a, FALSE, NullNumber, FALSE, "none", "none") :
        n \in KeyStrings(MaxKeyLen) \ {<< >>},
        a \in {Absent} \cup {Str(t) : t \in KeyStrings(MaxKeyLen)}}

InitKey ==
    /\ variant \in {"card", "page"}
    /\ input = [present |-> TRUE,
                queries |-> <<[searchTerm |-> Str(<<"B", " ", "a">>),
                               location   |-> Str(<<"B", " ", "a">>)]>>]
    /\ skipClosedPlaces = FALSE
    /\ requireWebsite = FALSE
    /\ minRating = NullNumber
    /\ shouldExtractEmail = TRUE
    /\ \E second \in KeyPlaces : world = {second}
    /\ feedCap = 0
    /\ lagCap = 0
    /\ shrinkCap = 0
    /\ pc = "key0"
    /\ queryIndex = 0
    /\ retryCount = 0
    /\ seenPlaces = {}
    /\ totalExtracted = 0
    /\ sink = << >>
    /\ placesExtractedThisQuery = 0
    /\ scrollAttempts = 0
    /\ noNewResultsCount = 0
    /\ previousCardCount = 0
    /\ cardsLength = 0
    /\ newCardsLength = 0
    /\ itemIndex = 0
    /\ newPlacesThisScroll = 0
    /\ allPlaceUrls = 0
    /\ placeData \in KeyPlaces
    /\ rendered = 0
    /\ endMarker = FALSE
    /\ qstate = <<"running">>
    /\ exitReason = "none"
    /\ barren = 0
    /\ alwaysGrew = TRUE
    /\ surfaced = {}
    /\ outcome = "none"

\* Lines 346-356 (850-860): the key of the first candidate is generated and
\* added to seenPlaces.
KeyOfFirst ==
    /\ pc = "key0"
    /\ pc' = "key1"
    /\ seenPlaces' = seenPlaces \cup {placeKey(placeData)}
    /\ UNCHANGED <<config, queryIndex, retryCount, totalExtracted, sink, locals,
                   feed, history>>

\* Lines 346-356 (850-860): the key of the second candidate is generated;
\* seenPlaces gains an element unless it holds the key.
KeyOfSecond ==
    /\ pc = "key1"
    /\ pc' = "key2"
    /\ \E p \in world : seenPlaces' = seenPlaces \cup {placeKey(p)}
    /\ UNCHANGED <<config, queryIndex, retryCount, totalExtracted, sink, locals,
                   feed, history>>

NextKey ==
    \/ KeyOfFirst
    \/ KeyOfSecond

SpecKey == InitKey /\ [][NextKey]_vars

(***************************************************************************)
(* normalize as a function of its argument: every string of MaxLen         *)
(* characters at most over NormChars is normalised, and the result is      *)
(* normalised again.  placeData.business_name holds the argument and       *)
(* placeData.address the value normalize was last applied to.              *)
(***************************************************************************)
\* The longest string normalize is applied to.
MaxLen == 3

\* An upper-case letter, a lower-case letter and two whitespace characters.
NormChars == {"A", "a", " ", "\t"}

RECURSIVE StringsUpTo(_)
StringsUpTo(n) ==
    IF n = 0 THEN {<< >>}
    ELSE LET shorter == StringsUpTo(n - 1)
         IN  shorter \cup {Append(s, c) : s \in {t \in shorter : Len(t) = n - 1},
                                          c \in NormChars}

InitNormalize ==
    /\ variant \in {"card", "page"}
    /\ input = NoInput
    /\ skipClosedPlaces = FALSE
    /\ requireWebsite = FALSE
    /\ minRating = NullNumber
    /\ shouldExtractEmail = TRUE
    /\ world = {}
    /\ feedCap = 0
    /\ lagCap = 0
    /\ shrinkCap = 0
    /\ pc = "norm0"
    /\ queryIndex = 0
    /\ retryCount = 0
    /\ seenPlaces = {}
    /\ totalExtracted = 0
    /\ sink = << >>
    /\ placesExtractedThisQuery = 0
    /\ scrollAttempts = 0
    /\ noNewResultsCount = 0
    /\ previousCardCount = 0
    /\ cardsLength = 0
    /\ newCardsLength = 0
    /\ itemIndex = 0
    /\ newPlacesThisScroll = 0
    /\ allPlaceUrls = 0
    /\ \E s \in StringsUpTo(MaxLen) :
         placeData = Candidate(Str(s), Str(s), FALSE, NullNumber, FALSE, "none", "none")
    /\ rendered = 0
    /\ endMarker = FALSE
    /\ qstate = << >>
    /\ exitReason = "none"
    /\ barren = 0
    /\ alwaysGrew = TRUE
    /\ surfaced = {}
    /\ outcome = "none"

\* One application of normalize to the value it was last applied to.
ApplyNormalize ==
    /\ pc \in {"norm0", "norm1"}
    /\ pc' = (IF pc = "norm0" THEN "norm1" ELSE "norm2")
    /\ placeData' = [placeData EXCEPT !.address = Str(normalize(@.val))]
    /\ UNCHANGED <<config, queryIndex, retryCount, shared, feed, history>>
    /\ UNCHANGED <<placesExtractedThisQuery, scrollAttempts, noNewResultsCount,
                   previousCardCount, cardsLength, newCardsLength, itemIndex,
                   newPlacesThisScroll, allPlaceUrls>>

NextNormalize == ApplyNormalize

SpecNormalize == InitNormalize /\ [][NextNormalize]_vars

(***************************************************************************)
(* The item pipeline under every combination of the settings and of the    *)
(* fields the filters read: one invocation whose loop has MaxItems items   *)
(* to process, each of them any of the candidates of FilterPlaces (which   *)
(* all have the same key), and no failing step.                            *)
(***************************************************************************)
\* The items the invocation has to process.
MaxItems == 2

\* One candidate per combination of website, rating and closed flag.
FilterPlaces ==
    {Candidate(Str(<<"A">>), Absent, w, r, c, "none", "site") :
        w \in BOOLEAN, r \in {NullNumber, 2, 4}, c \in BOOLEAN}

InitFilter ==
    /\ variant \in {"card", "page"}
    /\ input = [present |-> TRUE,
                queries |-> <<[searchTerm |-> Str(<<"B", " ", "a">>),
                               location   |-> Str(<<"B", " ", "a">>)]>>]
    /\ skipClosedPlaces \in BOOLEAN
    /\ requireWebsite \in BOOLEAN
    /\ minRating \in {NullNumber, 4}
    /\ shouldExtractEmail \in (IF variant = "card" THEN {TRUE} ELSE BOOLEAN)
    /\ world = FilterPlaces
    /\ feedCap = MaxItems
    /\ lagCap = MaxLag
    /\ shrinkCap = 0
    /\ pc = (IF variant = "card" THEN "cards" ELSE "visit")
    /\ queryIndex = 0
    /\ retryCount = 0
    /\ seenPlaces = {}
    /\ totalExtracted = 0
    /\ sink = << >>
    /\ placesExtractedThisQuery = 0
    /\ scrollAttempts = 0
    /\ noNewResultsCount = 0
    /\ previousCardCount = 0
    /\ cardsLength = (IF variant = "card" THEN MaxItems ELSE 0)
    /\ newCardsLength = (IF variant = "card" THEN MaxItems ELSE 0)
    /\ itemIndex = 0
    /\ newPlacesThisScroll = 0
    /\ allPlaceUrls = (IF variant = "page" THEN MaxItems ELSE 0)
    /\ placeData = NoRecord
    /\ rendered = MaxItems
    /\ endMarker = FALSE
    /\ qstate = <<"running">>
    /\ exitReason = (IF variant = "page" THEN "stall" ELSE "none")
    /\ barren = 0
    /\ alwaysGrew = TRUE
    /\ surfaced = {}
    /\ outcome = "none"

NextFilter ==
    \/ CardExtract
    \/ CardEmit
    \/ PageVisit
    \/ PageEmit

SpecFilter == InitFilter /\ [][NextFilter]_vars

(***************************************************************************)
(* Properties.                                                             *)
(***************************************************************************)
\* The positions of the Sink's records whose DedupKey is key.
recordsOf(key) == {i \in 1..Len(sink) : DedupKey(sink[i]) = key}

\* The positions of the queries whose harvest extracted a candidate with key.
surfacedBy(key) == {s[1] : s \in {t \in surfaced : t[2] = key}}

\* The keys of the named candidates the harvests extracted.
surfacedKeys == {s[2] : s \in surfaced}

\* The keys of the extracted candidates that no filter matches.
passingKeys == {s[2] : s \in {t \in surfaced : t[3] = "extracted"}}

----------------------------------------------------------------------------
\* C1: in every reachable state, retries of a handler included, no two
\* records of the Sink have the same DedupKey.
C1_UniqueDedupKeys ==
    \A i, j \in 1..Len(sink) :
        DedupKey(sink[i]) = DedupKey(sink[j]) => i = j

\* Two records are in the Sink, the request of the running query is in a
\* retry, and a key was extracted by both queries.
C1_Witness ==
    /\ Len(sink) = 2
    /\ retryCount > 0
    /\ \E k \in surfacedKeys : Cardinality(surfacedBy(k)) = 2

----------------------------------------------------------------------------
----------------------------------------------------------------------------
\* C3: at the end of the run, a key that two different queries extracted has
\* exactly one record in the Sink, and that record carries the position of
\* the earliest query that extracted the key.
C3_FirstOccurrenceWins ==
    pc = "done" =>
        \A k \in surfacedKeys :
            Cardinality(surfacedBy(k)) >= 2 =>
                /\ Cardinality(recordsOf(k)) = 1
                /\ \A i \in recordsOf(k) : \A q \in surfacedBy(k) :
                       sink[i].query_index <= q

----------------------------------------------------------------------------
\* C4, as the specification states it: with skipClosedPlaces, the key of
\* every extracted candidate that is closed is in the Dedup Index (so that a
\* later item with the key is a duplicate), and every record of a closed
\* place in the Sink is labelled "closed".
C4_ClosedKeptAndClaimed ==
    /\ \A s \in surfaced : s[3] = "closed" => s[2] \in seenPlaces
    /\ \A i \in 1..Len(sink) :
           (skipClosedPlaces /\ sink[i].isClosed) => sink[i].filter_status = "closed"

\* The record the place-page variant appends for placeData is labelled closed.
appendsClosed ==
    /\ Len(sink') = Len(sink) + 1
    /\ SubSeq(sink', 1, Len(sink)) = sink
    /\ sink'[Len(sink')].filter_status = "closed"
    /\ DedupKey(sink'[Len(sink')]) = placeKey(placeData)

\* C4, amended: with skipClosedPlaces, the place-page variant claims the key
\* of every closed candidate it extracts, labels every record of a closed
\* place "closed", and leaves the emission of a closed candidate with a new
\* key only by appending that record or by a failing step (which keeps the
\* key claimed); the card variant writes no record of a closed place and
\* claims a key only for a candidate that no filter matches.
C4_ClosedLabelledByPageDroppedByCard ==
    [][/\ (variant = "page" /\ skipClosedPlaces) =>
            /\ \A s \in surfaced' : s[3] = "closed" => s[2] \in seenPlaces'
            /\ \A i \in 1..Len(sink') :
                   sink'[i].isClosed =>
                       /\ sink'[i].filter_status = "closed"
                       /\ DedupKey(sink'[i]) \in seenPlaces'
            /\ (pc = "vemit" /\ placeData.isClosed) =>
                   \/ appendsClosed
                   \/ PageItemFail
                   \/ HandlerFail
       /\ (variant = "card" /\ skipClosedPlaces) =>
            /\ \A i \in 1..Len(sink') : ~sink'[i].isClosed
            /\ seenPlaces' \subseteq {s[2] : s \in {t \in surfaced' : t[3] = "extracted"}}]_vars

\* The place-page variant wrote a record labelled closed for a key, and a
\* later query extracted a candidate with that key, which added no record.
C4_Witness ==
    /\ variant = "page"
    /\ skipClosedPlaces
    /\ \E i \in 1..Len(sink) :
          /\ sink[i].isClosed
          /\ sink[i].filter_status = "closed"
          /\ sink[i].query_index = 1
          /\ 2 \in surfacedBy(DedupKey(sink[i]))
          /\ Cardinality(recordsOf(DedupKey(sink[i]))) = 1
    /\ pc = "done"

----------------------------------------------------------------------------
\* C5, as the specification states it: in a run without a failing step the
\* Sink holds, at the end, as many records as the extracted named candidates
\* have distinct keys, whatever the filters are.
C5_CountIsDistinctKeys ==
    pc = "done" => Len(sink) = Cardinality(surfacedKeys)

\* C5, amended: in a run without a failing step, whenever no record is
\* between its dedup check and its push, the Sink of the place-page variant
\* holds as many records as the extracted named candidates have distinct
\* keys, whatever the filters are; the Sink of the card variant holds as
\* many records as the extracted candidates that no filter matches have
\* distinct keys.
C5_CountPerVariant ==
    pc \notin {"emit", "vemit"} =>
        Len(sink) = Cardinality(IF variant = "page" THEN surfacedKeys ELSE passingKeys)

\* The place-page variant ends with two records, one of them labelled by a
\* filter, after three extractions of named candidates with two keys.
C5_Witness ==
    /\ pc = "done"
    /\ variant = "page"
    /\ Len(sink) = 2
    /\ Cardinality(surfacedKeys) = 2
    /\ Cardinality(surfaced) >= 3
    /\ \E i \in 1..Len(sink) : sink[i].filter_status # "extracted"

----------------------------------------------------------------------------
\* C6, as the specification states it: when the loop has stopped and the
\* latest 5 scroll actions rendered nothing new, with no end-of-list text,
\* it stopped by the stall threshold and with fewer than 100 scroll actions.
C6_StallStopsBelowCap ==
    (exitReason # "none" /\ barren >= NO_NEW_RESULTS_THRESHOLD /\ ~endMarker) =>
        /\ exitReason = "stall"
        /\ noNewResultsCount >= NO_NEW_RESULTS_THRESHOLD
        /\ scrollAttempts < MAX_SCROLL_ATTEMPTS

\* C6, amended: no loop issues a sixth scroll action after five that
\* rendered nothing new; a loop that stops by the stall threshold does so
\* with the stall counter at 5 and fewer than 100 scroll actions; and a loop
\* that has stopped after 5 barren scroll actions, without end-of-list text
\* and with fewer than 100 scroll actions, has stopped by the stall
\* threshold.  (5 barren scroll actions that end with the 100th stop the
\* loop by the cap.)
C6_StallStopsBeforeLastScroll ==
    /\ barren <= NO_NEW_RESULTS_THRESHOLD
    /\ exitReason = "stall" =>
           /\ noNewResultsCount = NO_NEW_RESULTS_THRESHOLD
           /\ scrollAttempts < MAX_SCROLL_ATTEMPTS
    /\ (exitReason # "none" /\ barren = NO_NEW_RESULTS_THRESHOLD /\ ~endMarker
        /\ scrollAttempts < MAX_SCROLL_ATTEMPTS) =>
           exitReason = "stall"

\* A loop that rendered items, then met 5 barren scroll actions and stopped
\* by the stall threshold.
C6_Witness ==
    /\ exitReason = "stall"
    /\ barren = NO_NEW_RESULTS_THRESHOLD
    /\ ~endMarker
    /\ rendered > MaxFeed
    /\ scrollAttempts > NO_NEW_RESULTS_THRESHOLD

----------------------------------------------------------------------------
\* C7: a loop over a feed that never showed the end-of-list text and
\* rendered something new after every scroll action does not stop before
\* the scroll counter is 100, and when it has stopped it stopped by the cap
\* with the scroll counter at exactly 100.
C7_CapAtExactlyHundred ==
    alwaysGrew =>
        /\ scrollAttempts <= MAX_SCROLL_ATTEMPTS
        /\ exitReason # "none" =>
               /\ exitReason = "cap"
               /\ scrollAttempts = MAX_SCROLL_ATTEMPTS

\* The loop of the card variant and the loop of the place-page variant have
\* stopped by the cap over a feed that always grew.
C7_Witness ==
    /\ exitReason = "cap"
    /\ alwaysGrew
    /\ scrollAttempts = MAX_SCROLL_ATTEMPTS
    /\ rendered >= MAX_SCROLL_ATTEMPTS

----------------------------------------------------------------------------
\* The rendered items the loop has handed to the extraction step: the cards
\* before the cursor, or the collected URLs.
handedToExtraction == IF variant = "card" THEN previousCardCount ELSE allPlaceUrls

\* C8: when the loop has stopped, every item the feed renders has been
\* handed to the extraction step.
C8_NothingRenderedLeftOut ==
    exitReason # "none" => rendered <= handedToExtraction

----------------------------------------------------------------------------
----------------------------------------------------------------------------
\* A field that is missing, empty or made of whitespace only.
missingOrBlank(field) ==
    ~field.present \/ \A i \in 1..Len(field.val) : IsSpace(field.val[i])

\* The input has no query, or a query with a missing or blank field.
invalidInput ==
    \/ Len(queries) = 0
    \/ \E i \in 1..Len(queries) :
          missingOrBlank(queries[i].searchTerm) \/ missingOrBlank(queries[i].location)

\* C10: with an empty query list, or a query anywhere in the list whose
\* searchTerm or location is missing or blank, the run fails at validation:
\* no query is ever started, nothing is extracted, and the Sink and the
\* Dedup Index stay empty.
C10_ValidationFailsFast ==
    invalidInput =>
        /\ pc \in {"validate", "failed"}
        /\ sink = << >>
        /\ seenPlaces = {}
        /\ surfaced = {}
        /\ totalExtracted = 0
        /\ \A k \in 1..Len(queries) : qstate[k] = "pending"

\* The run has failed on a list whose first query is valid and whose second
\* query has a whitespace-only field.
C10_Witness ==
    /\ pc = "failed"
    /\ Len(queries) = 2
    /\ ~missingOrBlank(queries[1].searchTerm)
    /\ ~missingOrBlank(queries[1].location)
    /\ queries[2].location = Str(<<" ", "\t">>)
    /\ sink = << >>
    /\ seenPlaces = {}

----------------------------------------------------------------------------
\* The positions of the Sink's records that carry the position of the query
\* the loop is at.
recordsOfThisQuery == {i \in 1..Len(sink) : sink[i].query_index = queryIndex + 1}

----------------------------------------------------------------------------
\* C12, as the specification states it: when the request of a query has
\* failed for good, the Sink holds no record of that query.
C12_FailedQueryHasNoRecord ==
    outcome = "failed" => recordsOfThisQuery = {}

\* C12, amended: the step in which the request of a query fails for good
\* comes after the last retry, writes nothing and removes nothing (the
\* records the failed invocations pushed stay in the Sink, their keys in the
\* Dedup Index); run() resolves, the only step from there is on to the next
\* query, which is started if there is one, the run ends normally if there
\* is none; and the run fails only at the validation of the input.
C12_FailedQueryKeepsRecordsRunGoesOn ==
    [][/\ outcome' = "failed" =>
            \/ outcome = "failed"
            \/ /\ retryCount = maxRequestRetries
               /\ pc' = "resolved"
               /\ UNCHANGED <<sink, seenPlaces, totalExtracted, queryIndex>>
       /\ pc = "resolved" =>
            /\ pc' = "query"
            /\ queryIndex' = queryIndex + 1
            /\ UNCHANGED <<sink, seenPlaces, totalExtracted>>
       /\ pc = "query" => pc' = (IF queryIndex < Len(queries) THEN "request" ELSE "done")
       /\ pc' = "failed" => (pc = "validate" /\ (~input.present \/ invalidInput))]_vars

\* The request of the first of two queries has failed for good, and the
\* Sink holds a record the query pushed before.
C12_Witness ==
    /\ outcome = "failed"
    /\ pc = "resolved"
    /\ queryIndex = 0
    /\ Len(queries) = 2
    /\ recordsOfThisQuery # {}

----------------------------------------------------------------------------
----------------------------------------------------------------------------
\* C14: a failure confined to one item does not end the invocation and
\* causes no retry: the loop goes on with the next item.
C14_ItemFailureIsContained ==
    [][(PageItemFail \/ CardItemFail) =>
         /\ retryCount' = retryCount
         /\ outcome' = outcome
         /\ pc' \in {"cards", "visit"}
         /\ itemIndex' = itemIndex + 1
         /\ UNCHANGED <<sink, scrollAttempts, previousCardCount>>]_vars

----------------------------------------------------------------------------
\* The label the claim's order of predicates gives a record of the Sink.
expectedStatus(r) ==
    IF skipClosedPlaces /\ r.isClosed THEN "closed"
    ELSE IF requireWebsite /\ ~r.website THEN "no_website"
    ELSE IF minRating # NullNumber /\ (r.rating = NullNumber \/ r.rating < minRating)
         THEN "low_rating"
    ELSE "extracted"

\* C15, as the specification states it: every record of the Sink carries
\* the filter_status of the first matching predicate, one of four values.
C15_StatusOnEveryRecord ==
    \A i \in 1..Len(sink) :
        /\ sink[i].filter_status = expectedStatus(sink[i])
        /\ sink[i].filter_status \in {"closed", "no_website", "low_rating", "extracted"}

\* C15, amended: every record the place-page variant writes carries the
\* filter_status of the first matching predicate in the order closed,
\* no_website, low_rating, else extracted; the records the card variant
\* writes carry no filter_status, and are records no predicate matches.
C15_StatusByPageOnly ==
    \A i \in 1..Len(sink) :
        IF variant = "page"
        THEN /\ sink[i].filter_status = expectedStatus(sink[i])
             /\ sink[i].filter_status \in {"closed", "no_website", "low_rating", "extracted"}
        ELSE /\ sink[i].filter_status = "absent"
             /\ expectedStatus(sink[i]) = "extracted"

\* With every filter set, the place-page variant wrote a record that all
\* three predicates match: it is labelled closed.
C15_Witness ==
    /\ variant = "page"
    /\ skipClosedPlaces /\ requireWebsite /\ minRating # NullNumber
    /\ \E i \in 1..Len(sink) :
          /\ sink[i].isClosed /\ ~sink[i].website /\ sink[i].rating = NullNumber
          /\ sink[i].filter_status = "closed"

----------------------------------------------------------------------------
appendsLabelled(status) ==
    /\ Len(sink') = Len(sink) + 1
    /\ SubSeq(sink', 1, Len(sink)) = sink
    /\ sink'[Len(sink')].filter_status = status
    /\ sink'[Len(sink')].website = placeData.website
    /\ DedupKey(sink'[Len(sink')]) = placeKey(placeData)

----------------------------------------------------------------------------
\* A record of the Sink passes the filters that are set.
passesFilters(r) ==
    /\ skipClosedPlaces => ~r.isClosed
    /\ requireWebsite => r.website
    /\ minRating # NullNumber => (r.rating # NullNumber /\ r.rating >= minRating)

----------------------------------------------------------------------------
\* The records of the Sink for which the Enricher was called for key.
fetchedFor(key) == {i \in recordsOf(key) : sink[i].fetched}

\* C18: the deduplication check comes before enrichment and emission: an
\* item goes on to enrichment and emission only if its key was not in the
\* Dedup Index, the Sink and the counters change only in the emission step
\* of such an item, and the Enricher ran for at most one record per key.
C18_DedupBeforeEnrichment ==
    [][/\ (pc' \in {"emit", "vemit"} /\ pc \notin {"emit", "vemit"}) =>
            /\ placeKey(placeData') \notin seenPlaces
            /\ placeKey(placeData') \in seenPlaces'
       /\ (\/ sink' # sink
           \/ totalExtracted' # totalExtracted
           \/ placesExtractedThisQuery' > placesExtractedThisQuery) =>
            /\ pc \in {"emit", "vemit"}
            /\ Len(sink') = Len(sink) + 1
       /\ \A i, j \in 1..Len(sink') :
            (/\ sink'[i].fetched
             /\ sink'[j].fetched
             /\ DedupKey(sink'[i]) = DedupKey(sink'[j])) => i = j]_vars

\* A key two queries surfaced, for which the Enricher ran once, when the
\* run has ended with a single record for it.
C18_Witness ==
    /\ pc = "done"
    /\ \E s, t \in surfaced :
          /\ s[2] = t[2]
          /\ s[1] # t[1]
          /\ Cardinality(fetchedFor(s[2])) = 1
          /\ Cardinality(recordsOf(s[2])) = 1

----------------------------------------------------------------------------
\* C19: normalize is idempotent: applied to its own result it returns that
\* result, normalize(normalize(s)) = normalize(s), for every string s.
C19_NormalizeIdempotent ==
    pc \in {"norm1", "norm2"} =>
        placeData.address.val = normalize(placeData.business_name.val)

\* normalize was applied twice to a string with an upper-case letter, a
\* leading run of whitespace and a trailing whitespace character.
C19_Witness ==
    /\ pc = "norm2"
    /\ Len(placeData.business_name.val) = MaxLen
    /\ IsSpace(placeData.business_name.val[1])
    /\ IsSpace(placeData.business_name.val[Len(placeData.business_name.val)])
    /\ \E i \in 1..Len(placeData.business_name.val) :
          placeData.business_name.val[i] = "A"
    /\ placeData.address.val = <<"a">>

----------------------------------------------------------------------------
\* C21: the end-of-list text is checked at the start of every iteration of
\* the scroll loop: while the text is on the page no scroll action is issued.
C21_NoScrollPastEndMarker ==
    [][endMarker => scrollAttempts' <= scrollAttempts]_vars

----------------------------------------------------------------------------
\* The step that ends an iteration of the scroll loop.
endsIteration ==
    \/ variant = "card" /\ pc = "cards" /\ pc' \in {"loop", "summary"}
    \/ variant = "page" /\ pc = "loop" /\ mayScroll

\* The items the iteration that ends discovered: the cards past the cursor,
\* or the place links not collected before.
discoveredItems ==
    IF variant = "card"
    THEN Max(0, cardsLength - previousCardCount)
    ELSE allPlaceUrls' - allPlaceUrls

----------------------------------------------------------------------------
\* C23: within one handler invocation the cursor between the seen and the
\* unseen items never decreases, whatever the feed renders.
C23_CursorNeverDecreases ==
    [][previousCardCount' >= previousCardCount]_vars

----------------------------------------------------------------------------
\* C24: whatever the feed does, the scroll loop of an invocation stops, the
\* scroll counter never exceeds 100 and the stall counter never exceeds 5.
C24_ScrollLoopTerminates ==
    /\ [](scrollAttempts <= MAX_SCROLL_ATTEMPTS)
    /\ [](noNewResultsCount <= NO_NEW_RESULTS_THRESHOLD)
    /\ (pc = "loop") ~> (exitReason # "none")

\* A loop stopped by the cap, with the scroll counter at 100, over a feed
\* that dropped an item at its last scroll action.
C24_Witness ==
    /\ exitReason = "cap"
    /\ scrollAttempts = MAX_SCROLL_ATTEMPTS
    /\ handedToExtraction > rendered

----------------------------------------------------------------------------
\* C25: every handler invocation starts with the cursor, the stall counter,
\* the scroll counter and the per-query count of records at zero, and no
\* step removes a key from the Dedup Index or decreases totalExtracted.
C25_PerQueryStateFresh ==
    [][/\ (pc = "request" /\ pc' = "loop") =>
            /\ previousCardCount' = 0
            /\ noNewResultsCount' = 0
            /\ scrollAttempts' = 0
            /\ placesExtractedThisQuery' = 0
            /\ allPlaceUrls' = 0
       /\ seenPlaces \subseteq seenPlaces'
       /\ totalExtracted' >= totalExtracted]_vars

\* The handler of the second query has started with fresh locals after the
\* first query scrolled and wrote a record.
C25_Witness ==
    /\ queryIndex = 1
    /\ pc = "loop"
    /\ scrollAttempts = 0
    /\ placesExtractedThisQuery = 0
    /\ seenPlaces # {}
    /\ totalExtracted > 0

----------------------------------------------------------------------------
\* Where the handler is between the start of its scroll loop and its end.
InHandlerBody == {"loop", "cards", "emit", "summary", "visit", "vemit"}

\* The items of the feed, counted in rendering order, that the invocation
\* has finished with: the cards before the cursor and the new cards before
\* the loop index, or the collected place links before the loop index.
processedItems ==
    IF variant = "card"
    THEN previousCardCount + (IF pc \in {"cards", "emit"} THEN itemIndex ELSE 0)
    ELSE (IF pc \in {"visit", "vemit"} THEN itemIndex ELSE 0)

----------------------------------------------------------------------------
\* C27: a step that finishes with an item without emitting it leaves the
\* Sink, the Dedup Index, totalExtracted and the per-query count as they
\* were; only an item with a business_name and a key the Dedup Index does
\* not hold goes on to emission; no record of the Sink lacks a
\* business_name.
C27_SkippedItemChangesNothing ==
    [][/\ (pc \in {"cards", "visit"} /\ pc' = pc /\ itemIndex' = itemIndex + 1) =>
            UNCHANGED <<sink, seenPlaces, totalExtracted, placesExtractedThisQuery>>
       /\ (pc \in {"cards", "visit"} /\ pc' \in {"emit", "vemit"}) =>
            /\ placeData'.business_name.present
            /\ placeData'.business_name.val # << >>
            /\ placeKey(placeData') \notin seenPlaces
       /\ \A i \in 1..Len(sink') : sink'[i].business_name # << >>]_vars

\* The first query's handler has emitted its first item and skipped its
\* second.
C27_Witness ==
    /\ pc \in {"cards", "visit"}
    /\ queryIndex = 0
    /\ retryCount = 0
    /\ itemIndex = 2
    /\ placesExtractedThisQuery = 1
    /\ Len(sink) = 1
    /\ Cardinality(seenPlaces) = 1

----------------------------------------------------------------------------
\* The first match, in page order, that is not on the denylist; none when
\* there is no such match.
firstAllowedMatch(matches) ==
    IF \E i \in 1..Len(matches) : ~isDenylisted(matches[i])
    THEN matches[CHOOSE i \in 1..Len(matches) :
                    /\ ~isDenylisted(matches[i])
                    /\ \A j \in 1..(i - 1) : isDenylisted(matches[j])]
    ELSE "none"

\* C28: for a page fetched with success the Enricher returns the first
\* match that is not on the denylist, or none; on a timeout, a status that
\* is not a success or a network error it returns none; the record is
\* emitted with what the Enricher returned.
C28_EnricherFirstAllowedMatch ==
    /\ pc \in {"emit", "vemit"} =>
          placeData.siteEmail =
              (IF placeData.response = "ok"
               THEN firstAllowedMatch(placeData.matches) ELSE "none")
    /\ \A i \in 1..Len(sink) : sink[i].fetched /\ ~isDenylisted(sink[i].email)

----------------------------------------------------------------------------
\* The keys of the records of the Sink.
sinkKeys == {DedupKey(sink[i]) : i \in 1..Len(sink)}

\* C29: between two items the Dedup Index holds exactly the keys of the
\* records of the Sink, and its size, totalExtracted and the number of
\* records of the Sink are equal.
C29_IndexMatchesSink ==
    pc \notin {"emit", "vemit"} =>
        /\ seenPlaces = sinkKeys
        /\ Cardinality(seenPlaces) = totalExtracted
        /\ totalExtracted = Len(sink)

----------------------------------------------------------------------------
\* C30: in the place-page variant an invocation that is in its URL
\* collection loop extracts no item, claims no key and appends no record,
\* and an invocation that has begun to visit the places has left that loop
\* for good: it issues no scroll action and collects no further URL.
C30_TwoPhaseHarvest ==
    [][variant = "page" =>
          /\ pc = "loop" =>
                /\ UNCHANGED <<seenPlaces, sink, totalExtracted, surfaced>>
                /\ placesExtractedThisQuery' = 0
                /\ pc' # "vemit"
          /\ pc \in {"visit", "vemit"} =>
                /\ exitReason # "none"
                /\ pc' # "loop"
                /\ pc' \in {"visit", "vemit"} =>
                      UNCHANGED <<scrollAttempts, rendered, endMarker, allPlaceUrls>>]_vars

\* The place-page variant has appended a record after a collection loop
\* that issued scroll actions and collected two URLs.
C30_Witness ==
    /\ variant = "page"
    /\ pc = "visit"
    /\ scrollAttempts > 0
    /\ allPlaceUrls = 2
    /\ placesExtractedThisQuery >= 1
    /\ Len(sink) >= 1

----------------------------------------------------------------------------
\* Two candidates have the same normalized name and the same normalized
\* address, an absent address taken as the empty string.
sameNormalizedFields(p, q) ==
    /\ normalize(p.business_name.val) = normalize(q.business_name.val)
    /\ normalize(addressOrEmpty(p.address)) = normalize(addressOrEmpty(q.address))

\* C31: two records have the same DedupKey if and only if their normalized
\* names are equal and their normalized addresses are equal.
C31_KeyEqualIffFieldsEqual ==
    pc = "key2" =>
        \A q \in world :
            (Cardinality(seenPlaces) = 1) <=> sameNormalizedFields(placeData, q)

=============================================================================
